---- MODULE Spec2Model ----
(***************************************************************************)
(* Sentence alignment of two texts (parallelogram).                        *)
(*                                                                         *)
(* The module models                                                       *)
(*   - the cycle loop of Parallelogram::align (src/src/lib.rs) with the    *)
(*     dense sentence alignment table, the region builder                  *)
(*     alignable_sentence_table, the ranking built by                      *)
(*     word_association_tables and the promotion step                      *)
(*     WordAssociation::align_sentences (src/src/word_association.rs);     *)
(*   - the sparse SentenceAlignmentTable                                   *)
(*     (src/src/sentence_alignment_table.rs) as an object with the         *)
(*     operations increment, crossover and next_anchor.                    *)
(*                                                                         *)
(* Coordinates are <<x, y>>: x indexes a sentence of text b, y a sentence  *)
(* of text a, both 0-based as in the code.  Texts are sequences of         *)
(* sentences, sentences are sequences of words, words are integers (their  *)
(* natural order is the Word type's PartialOrd).                           *)
(*                                                                         *)
(* f32 values are modelled as quotients: a similarity or a coverage is a   *)
(* pair <<numerator, denominator>>, the configured f32 thresholds are      *)
(* multiples of 1/FloatDen (0.8, 0.05, 0.3 and 0.95 of Config::default are *)
(* 16, 1, 6 and 19 twentieths), and the band arithmetic of the region      *)
(* builder is carried out on integers.  The comparisons of the quotients   *)
(* agree with the f32 comparisons of the code for the thresholds of        *)
(* Config::default in every cycle 0..20 and for every similarity or        *)
(* coverage whose denominator is below 40 (at 40, the f32 threshold of     *)
(* cycle 7, 0.45000002, exceeds the similarity 18/40); thresholds that are *)
(* multiples of 1/4 are exact in f32.                                      *)
(*                                                                         *)
(* usize is modelled with UsizeBits bits instead of 64, since the checker  *)
(* works on 32-bit integers; wrap-around is % 2^UsizeBits.                 *)
(***************************************************************************)
EXTENDS Integers, Sequences, FiniteSets, TLC

(***************************************************************************)
(* Bounds of the model.                                                    *)
(***************************************************************************)
MaxWord == 2
MaxSentences == 3
MaxTokens == 2
MaxCycles == 2
MaxAnchorThreshold == 2
MaxFrequency == 2
WideSentences == 5
WideTokens == 3
TableMaxX == 3
TableMaxY == 3
MaxIncrements == 3

(***************************************************************************)
(* Program constants.                                                      *)
(***************************************************************************)
UsizeBits == 30
UsizeMax == (2 ^ UsizeBits) - 1
FloatDen == 20

Words == 1..MaxWord

None == <<>>

Min(i, j) == IF i <= j THEN i ELSE j
Max(i, j) == IF i >= j THEN i ELSE j

(***************************************************************************)
(* Shape of a dense table: vec![vec![0; b.len()]; a.len()].                *)
(* table[y][x], y in 0..Height-1, x in 0..Width-1.                         *)
(***************************************************************************)
Height(table) == Cardinality(DOMAIN table)
Width(table) == Cardinality(DOMAIN table[0])

ZeroTable(h, w) == [y \in 0..(h - 1) |-> [x \in 0..(w - 1) |-> 0]]

(***************************************************************************)
(* The closure next_anchor of alignable_sentence_table (lib.rs 240-260).   *)
(* Rows y <= from_y are skipped; the inner skip_while only applies to the  *)
(* row y = from_y, which the outer skip_while has already dropped, so      *)
(* every remaining row is scanned from x = 0.  The first hit in row-major  *)
(* order is returned, or the last cell of the table.                       *)
(***************************************************************************)
next_anchor(sat, anchor_threshold, from) ==
    IF from = None
    THEN <<0, 0>>
    ELSE LET from_x == from[1]
             from_y == from[2]
             h == Height(sat)
             w == Width(sat)
             rows == {y \in 0..(h - 1) :
                        /\ ~(y <= from_y)
                        /\ \E x \in 0..(w - 1) :
                              /\ ~(y = from_y /\ x <= from_x)
                              /\ sat[y][x] >= anchor_threshold}
         IN IF rows = {}
            THEN <<w - 1, h - 1>>
            ELSE LET y == CHOOSE r \in rows : \A s \in rows : r <= s
                     xs == {x \in 0..(w - 1) :
                              /\ ~(y = from_y /\ x <= from_x)
                              /\ sat[y][x] >= anchor_threshold}
                 IN <<CHOOSE x \in xs : \A z \in xs : x <= z, y>>

(***************************************************************************)
(* Band arithmetic of one scan position (lib.rs 274-282 and 289-297).      *)
(* step = position - start on the scanned axis, span = the scanned         *)
(* distance, distance = the other (not smaller) distance.                  *)
(*   progress = step / span                                                *)
(*   scale    = |0.5 - progress| / 0.5            = |span - 2 step| / span *)
(*   n        = (sqrt(d) - scale * sqrt(d)).min(sqrt(d)).max(1.0) as usize *)
(*            = max(1, floor(sqrt(d) * m / span)), m = 2 min(step,span-step)*)
(* span = 0 makes progress NaN: min and max ignore a NaN operand, so n is  *)
(* floor(sqrt(d)) and the limits fall back to the clamps.  The integer     *)
(* form agrees with the f32 evaluation for every distance up to 8; at     *)
(* distance 9 f32 rounding of 1/3 makes the code's n smaller by one.       *)
(***************************************************************************)
BandWidth(step, span, distance) ==
    LET m == 2 * Min(step, span - step)
        roots == {r \in 0..distance :
                    IF span = 0
                    THEN r * r <= distance
                    ELSE r * r * span * span <= distance * m * m}
    IN Max(1, CHOOSE r \in roots : \A q \in roots : q <= r)

\* floor(diagonal - n / 2).max(start) as usize
BandMin(start, step, span, distance) ==
    IF span = 0
    THEN start
    ELSE LET n == BandWidth(step, span, distance)
         IN Max(start, start + ((2 * step * distance - n * span) \div (2 * span)))

\* floor(diagonal + n / 2).min(end) as usize
BandMax(start, end, step, span, distance) ==
    IF span = 0
    THEN end
    ELSE LET n == BandWidth(step, span, distance)
         IN Min(end, start + ((2 * step * distance + n * span) \div (2 * span)))

(***************************************************************************)
(* The cells one pair of walk points (start, end) contributes              *)
(* (lib.rs 269-302).  If x_distance > y_distance the rows start_y..end_y   *)
(* are scanned and a band of x is filled in each; otherwise the columns.   *)
(***************************************************************************)
Segment(start, end) ==
    LET start_x == start[1]
        start_y == start[2]
        end_x == end[1]
        end_y == end[2]
        x_distance == end_x - start_x
        y_distance == end_y - start_y
    IN IF x_distance > y_distance
       THEN {<<x, y>> \in (start_x..end_x) \X (start_y..end_y) :
               /\ BandMin(start_x, y - start_y, y_distance, x_distance) <= x
               /\ x <= BandMax(start_x, end_x, y - start_y, y_distance, x_distance)}
       ELSE {<<x, y>> \in (start_x..end_x) \X (start_y..end_y) :
               /\ BandMin(start_y, x - start_x, x_distance, y_distance) <= y
               /\ y <= BandMax(start_y, end_y, x - start_x, x_distance, y_distance)}

(***************************************************************************)
(* alignable_sentence_table (lib.rs 236-309): walk the anchors from the    *)
(* synthetic origin until next_anchor returns the current start.  The      *)
(* result is the set of cells holding 1.                                   *)
(***************************************************************************)
RECURSIVE Walk(_, _, _, _, _)
Walk(sat, anchor_threshold, start, end, region) ==
    IF start = end
    THEN region
    ELSE Walk(sat, anchor_threshold, end,
              next_anchor(sat, anchor_threshold, end),
              region \cup Segment(start, end))

alignable_sentence_table(sat, anchor_threshold) ==
    LET start == next_anchor(sat, anchor_threshold, None)
    IN Walk(sat, anchor_threshold, start,
            next_anchor(sat, anchor_threshold, start), {})

(***************************************************************************)
(* end_x - start_x and end_y - start_y are usize subtractions              *)
(* (lib.rs 269-270): they underflow if a walk point lies left of its       *)
(* predecessor.                                                            *)
(***************************************************************************)
RECURSIVE WalkUnderflows(_, _, _, _)
WalkUnderflows(sat, anchor_threshold, start, end) ==
    IF start = end
    THEN FALSE
    ELSE \/ end[1] < start[1]
         \/ end[2] < start[2]
         \/ WalkUnderflows(sat, anchor_threshold, end,
                           next_anchor(sat, anchor_threshold, end))

RegionUnderflows(sat, anchor_threshold) ==
    LET start == next_anchor(sat, anchor_threshold, None)
    IN WalkUnderflows(sat, anchor_threshold, start,
                      next_anchor(sat, anchor_threshold, start))

(***************************************************************************)
(* Parallelogram::word_sentence_index (lib.rs 223-233): for every word the *)
(* sentence indices in order of appearance, one entry per occurrence.      *)
(***************************************************************************)
RECURSIVE TokenList(_, _)
TokenList(sentences, i) ==
    IF i > Len(sentences)
    THEN <<>>
    ELSE [k \in 1..Len(sentences[i]) |-> <<sentences[i][k], i - 1>>]
         \o TokenList(sentences, i + 1)

word_sentence_index(sentences) ==
    LET tokens == TokenList(sentences, 1)
        words == {tokens[k][1] : k \in 1..Len(tokens)}
    IN [word \in words |->
          LET hits == SelectSeq(tokens, LAMBDA t : t[1] = word)
          IN [k \in 1..Len(hits) |-> hits[k][2]]]

(***************************************************************************)
(* The score of hirschberg::Config {match_score: 1, mismatch_score: 0,     *)
(* gap_score: 0} on the two candidate lists (word_association.rs 168-175): *)
(* the longest common subsequence under Candidate's PartialEq              *)
(* (word_association.rs 221-229), which holds iff the cell (x, y) of the   *)
(* two sentences is alignable.                                             *)
(***************************************************************************)
RECURSIVE Score(_, _, _, _, _)
Score(ys, xs, i, j, region) ==
    IF i > Len(ys) \/ j > Len(xs)
    THEN 0
    ELSE Max(Max(Score(ys, xs, i + 1, j, region), Score(ys, xs, i, j + 1, region)),
             Score(ys, xs, i + 1, j + 1, region)
               + (IF <<xs[j], ys[i]>> \in region THEN 1 ELSE 0))

(***************************************************************************)
(* WordAssociation::similarity (word_association.rs 144-180):              *)
(* (2 * c) as f32 / (a_occurrences + b_occurrences) as f32, kept as the    *)
(* pair <<2 c, a_occurrences + b_occurrences>>.                            *)
(***************************************************************************)
similarity(region, a_word_sentence_index, b_word_sentence_index, a_word, b_word) ==
    LET c == Score(a_word_sentence_index[a_word], b_word_sentence_index[b_word],
                   1, 1, region)
        a_occurrences == Len(a_word_sentence_index[a_word])
        b_occurrences == Len(b_word_sentence_index[b_word])
    IN <<2 * c, a_occurrences + b_occurrences>>

(***************************************************************************)
(* WordAssociation::new (word_association.rs 49-86).  association_mapper   *)
(* is the set of word pairs the injected predicate accepts.                *)
(***************************************************************************)
WordAssociation(region, a_word_sentence_index, b_word_sentence_index, a_word, b_word, association_mapper) ==
    LET mapped_association == <<a_word, b_word>> \in association_mapper
    IN [a |-> a_word,
        b |-> b_word,
        similarity |-> IF mapped_association
                       THEN <<1, 1>>
                       ELSE similarity(region, a_word_sentence_index,
                                       b_word_sentence_index, a_word, b_word),
        a_occurrences |-> IF mapped_association
                          THEN UsizeMax
                          ELSE Len(a_word_sentence_index[a_word]),
        b_occurrences |-> IF mapped_association
                          THEN UsizeMax
                          ELSE Len(b_word_sentence_index[b_word])]

(***************************************************************************)
(* Comparison of word associations (word_association.rs 183-213).          *)
(*   eq:          same a and same b.                                       *)
(*   partial_cmp: Equal if eq; otherwise by similarity, then by            *)
(*                a_occurrences + b_occurrences, then by a.                *)
(*   cmp:         partial_cmp, or Equal where it is undefined (integer     *)
(*                words and finite similarities are always comparable).    *)
(* The sum is a usize addition: it wraps around when overflow checks are   *)
(* off and panics when they are on.                                        *)
(***************************************************************************)
WrappingAdd(i, j) == (i + j) % (2 ^ UsizeBits)

WrappingSub(i, j) == (i - j + (2 ^ UsizeBits)) % (2 ^ UsizeBits)

CompareInt(i, j) == IF i < j THEN "Less" ELSE IF i > j THEN "Greater" ELSE "Equal"

\* f32::partial_cmp of two quotients with positive denominators
CompareFloat(p, q) == CompareInt(p[1] * q[2], q[1] * p[2])

eq(self, other) == self.a = other.a /\ self.b = other.b

partial_cmp(self, other) ==
    IF eq(self, other)
    THEN "Equal"
    ELSE LET by_similarity == CompareFloat(self.similarity, other.similarity)
             by_occurrences ==
                 CompareInt(WrappingAdd(self.a_occurrences, self.b_occurrences),
                            WrappingAdd(other.a_occurrences, other.b_occurrences))
         IN IF by_similarity # "Equal"
            THEN by_similarity
            ELSE IF by_occurrences # "Equal"
                 THEN by_occurrences
                 ELSE CompareInt(self.a, other.a)

cmp(self, other) == partial_cmp(self, other)

\* whether evaluating partial_cmp(self, other) overflows a usize addition
cmp_overflows(self, other) ==
    /\ ~eq(self, other)
    /\ CompareFloat(self.similarity, other.similarity) = "Equal"
    /\ \/ self.a_occurrences + self.b_occurrences > UsizeMax
       \/ other.a_occurrences + other.b_occurrences > UsizeMax

(***************************************************************************)
(* BTreeSet<Reverse<WordAssociation>>::insert (lib.rs 211).  The set is    *)
(* the sequence of its elements in iteration order (ascending Reverse,     *)
(* i.e. best association first).  The search compares the new key with the *)
(* stored keys in iteration order: Reverse(new).cmp(Reverse(k)) is         *)
(* k.cmp(new); Greater moves on, Equal ends the search without inserting,  *)
(* Less inserts before k.  (One leaf node holds up to 11 keys, the         *)
(* rankings of the model are shorter.)                                     *)
(***************************************************************************)
RECURSIVE search_tree(_, _, _)
search_tree(table, association, i) ==
    IF i > Len(table)
    THEN [found |-> FALSE, at |-> i, overflow |-> FALSE]
    ELSE LET ordering == cmp(table[i], association)
             overflows == cmp_overflows(table[i], association)
         IN IF ordering = "Greater"
            THEN LET rest == search_tree(table, association, i + 1)
                 IN [rest EXCEPT !.overflow = @ \/ overflows]
            ELSE [found |-> ordering = "Equal", at |-> i, overflow |-> overflows]

insert(table, association) ==
    LET slot == search_tree(table, association, 1)
    IN [table |-> IF slot.found
                  THEN table
                  ELSE SubSeq(table, 1, slot.at - 1) \o <<association>>
                       \o SubSeq(table, slot.at, Len(table)),
        overflow |-> slot.overflow]

(***************************************************************************)
(* Parallelogram::word_association_tables (lib.rs 182-221).                *)
(* Visits: the word pairs in the order the four nested loops meet them,    *)
(* cell by cell in row-major order over the alignable cells.               *)
(***************************************************************************)
RECURSIVE Visits(_, _, _, _)
Visits(region, text_a, text_b, cell) ==
    IF cell >= Len(text_a) * Len(text_b)
    THEN <<>>
    ELSE LET y == cell \div Len(text_b)
             x == cell % Len(text_b)
             a_words == text_a[y + 1]
             b_words == text_b[x + 1]
             here == IF <<x, y>> \in region
                     THEN [k \in 1..(Len(a_words) * Len(b_words)) |->
                             <<a_words[((k - 1) \div Len(b_words)) + 1],
                               b_words[((k - 1) % Len(b_words)) + 1]>>]
                     ELSE <<>>
         IN here \o Visits(region, text_a, text_b, cell + 1)

\* lib.rs 207-210
Admitted(association, similarity_min, frequency_min) ==
    /\ association.similarity[1] * FloatDen
         >= similarity_min * association.similarity[2]
    /\ association.a_occurrences >= frequency_min
    /\ association.b_occurrences >= frequency_min

RECURSIVE Rank(_, _, _, _, _, _, _, _, _, _)
Rank(visits, i, visited, table, overflow, region, a_word_sentence_index, b_word_sentence_index, thresholds, association_mapper) ==
    IF i > Len(visits)
    THEN [table |-> table, overflow |-> overflow]
    ELSE IF visits[i] \in visited
         THEN Rank(visits, i + 1, visited, table, overflow, region,
                   a_word_sentence_index, b_word_sentence_index, thresholds,
                   association_mapper)
         ELSE LET association ==
                      WordAssociation(region, a_word_sentence_index,
                                      b_word_sentence_index, visits[i][1],
                                      visits[i][2], association_mapper)
                  inserted ==
                      IF Admitted(association, thresholds[1], thresholds[2])
                      THEN insert(table, association)
                      ELSE [table |-> table, overflow |-> FALSE]
              IN Rank(visits, i + 1, visited \cup {visits[i]}, inserted.table,
                      overflow \/ inserted.overflow, region, a_word_sentence_index,
                      b_word_sentence_index, thresholds, association_mapper)

word_association_tables(text_a, text_b, region, similarity_min, frequency_min, association_mapper) ==
    Rank(Visits(region, text_a, text_b, 0), 1, {}, <<>>, FALSE, region,
         word_sentence_index(text_a), word_sentence_index(text_b),
         <<similarity_min, frequency_min>>, association_mapper)

(***************************************************************************)
(* WordAssociation::align_sentences (word_association.rs 88-142).          *)
(***************************************************************************)
Range(seq) == {seq[k] : k \in 1..Len(seq)}

\* Matches without the region test of word_association.rs 96 and the filter
\* of word_association.rs 105-113: every pair of sentences holding the words
MatchesAnywhere(association, region, a_word_sentence_index, b_word_sentence_index) ==
    LET ys == Range(a_word_sentence_index[association.a])
        xs == Range(b_word_sentence_index[association.b])
    IN xs \X ys

\* Matches without the tests of word_association.rs 107-112 that y maps back
\* to x alone
MatchesOneWay(association, region, a_word_sentence_index, b_word_sentence_index) ==
    LET ys == Range(a_word_sentence_index[association.a])
        xs == Range(b_word_sentence_index[association.b])
        b_candidates(x) == {y \in ys : <<x, y>> \in region}
    IN {<<x, y>> \in xs \X ys : <<x, y>> \in region /\ b_candidates(x) = {y}}

\* word_association.rs 92-115: the mutual unique matches inside the region
Matches(association, region, a_word_sentence_index, b_word_sentence_index) ==
    LET ys == Range(a_word_sentence_index[association.a])
        xs == Range(b_word_sentence_index[association.b])
        a_candidates(y) == {x \in xs : <<x, y>> \in region}
        b_candidates(x) == {y \in ys : <<x, y>> \in region}
    IN {<<x, y>> \in xs \X ys :
          /\ <<x, y>> \in region
          /\ b_candidates(x) = {y}
          /\ a_candidates(y) = {x}}

\* Crossing without the first scan (word_association.rs 119-125)
CrossingAboveOnly(sat, x, y) ==
    \E y2 \in 0..(y - 1) : \E x2 \in (x + 1)..(Width(sat) - 1) : sat[y2][x2] >= 1

\* word_association.rs 119-133: an entry below-left or above-right of (x, y)
Crossing(sat, x, y) ==
    \/ \E y2 \in (y + 1)..(Height(sat) - 1) :
          \E x2 \in 0..(x - 1) : sat[y2][x2] >= 1
    \/ \E y2 \in 0..(y - 1) :
          \E x2 \in (x + 1)..(Width(sat) - 1) :
             sat[y2][x2] >= 1

\* Rejected without the return of word_association.rs 122 and 130
RejectedNever(sat, matches) == FALSE

\* word_association.rs 117-135
Rejected(sat, matches) ==
    \E m \in matches :
       /\ sat[m[2]][m[1]] = 0
       /\ Crossing(sat, m[1], m[2])

\* word_association.rs 137-139
Incremented(sat, matches) ==
    [y \in DOMAIN sat |->
       [x \in DOMAIN sat[y] |->
          IF <<x, y>> \in matches
          THEN sat[y][x] + 1
          ELSE sat[y][x]]]

align_sentences(association, region, a_word_sentence_index, b_word_sentence_index, sat) ==
    LET matches == Matches(association, region, a_word_sentence_index,
                           b_word_sentence_index)
    IN IF Rejected(sat, matches)
       THEN [table |-> sat, matches |-> {}]
       ELSE [table |-> Incremented(sat, matches),
             matches |-> matches]

(***************************************************************************)
(* State of one run of Parallelogram::align (lib.rs 140-180).              *)
(*   a, b, config      the inputs; config holds the fields of Config       *)
(*   overflow_checks   whether the build panics on integer overflow        *)
(*                     (debug profile) or wraps around (release profile)   *)
(*   sentence_alignment_table, cycle_count, a_aligned, b_aligned,          *)
(*   coverage, coverage_report                                             *)
(*                     the locals of align                                 *)
(*   ast               alignable_sentence_table of the running cycle       *)
(*   word_association_table                                                *)
(*                     what is left of the cycle's ranking                 *)
(*   similarity_threshold, frequency_threshold                             *)
(*                     the thresholds passed to word_association_tables    *)
(*   promoted          the return value of the last align_sentences call   *)
(*   pc                "loop": at the loop test; "apply": inside the for   *)
(*                     loop over the ranking; "done": align has returned;  *)
(*                     "panic": the run has panicked                       *)
(*   faults            the integer overflows that have occurred            *)
(* State of a SentenceAlignmentTable object:                               *)
(*   sparse_table      the fields anchor_threshold, map, end               *)
(*   last_call         the last operation applied and its return value     *)
(***************************************************************************)
VARIABLES a, b, config, overflow_checks, sentence_alignment_table, cycle_count,
          a_aligned, b_aligned, coverage, coverage_report, ast,
          word_association_table, similarity_threshold, frequency_threshold,
          promoted, pc, faults, sparse_table, last_call

align_vars == <<a, b, config, overflow_checks, sentence_alignment_table, cycle_count, a_aligned, b_aligned, coverage, coverage_report, ast, word_association_table, similarity_threshold, frequency_threshold, promoted, pc, faults>>

table_vars == <<sparse_table, last_call>>

vars == <<align_vars, table_vars>>

(***************************************************************************)
(* Inputs.                                                                 *)
(***************************************************************************)
SentencesUpTo(n) == UNION {[1..k -> Words] : k \in 0..n}

RECURSIVE TokenCount(_, _)
TokenCount(sentences, i) ==
    IF i > Len(sentences) THEN 0 ELSE Len(sentences[i]) + TokenCount(sentences, i + 1)

\* the texts of exactly n sentences holding at most t words in all
TextsOf(n, t) == {text \in [1..n -> SentencesUpTo(t)] : TokenCount(text, 1) <= t}

Texts == UNION {TextsOf(n, MaxTokens) : n \in 1..MaxSentences}

\* Config::default (lib.rs 75-90); the f32 fields in units of 1/FloatDen
Default ==
    [anchor_threshold |-> 3,
     max_cycles |-> 20,
     word_frequency_threshold |-> 5,
     word_frequency_taper |-> 0,
     word_frequency_minimum |-> 0,
     word_similarity_threshold |-> 16,
     word_similarity_taper |-> 1,
     word_similarity_minimum |-> 6,
     min_coverage |-> 19,
     association_mapper |-> {}]

\* A Config written field by field (lib.rs 46-73, every field is pub), not
\* the default: anchor_threshold 1, max_cycles MaxCycles,
\* word_frequency_threshold 1, word_similarity_threshold 0.5,
\* word_similarity_taper 0.25, word_similarity_minimum 0.25 and
\* min_coverage 1.0 put anchors, tapering and full coverage in reach of
\* texts of a few sentences.
BaseConfig ==
    [Default EXCEPT !.anchor_threshold = 1,
                    !.max_cycles = MaxCycles,
                    !.word_frequency_threshold = 1,
                    !.word_similarity_threshold = 10,
                    !.word_similarity_taper = 5,
                    !.word_similarity_minimum = 5,
                    !.min_coverage = FloatDen]

\* lib.rs 141-146
InitAlign ==
    /\ sentence_alignment_table = ZeroTable(Len(a), Len(b))
    /\ cycle_count = 0
    /\ a_aligned = {}
    /\ b_aligned = {}
    /\ coverage = <<0, 1>>
    /\ coverage_report = <<>>
    /\ ast = {}
    /\ word_association_table = <<>>
    /\ similarity_threshold = 0
    /\ frequency_threshold = 0
    /\ promoted = {}
    /\ pc = "loop"
    /\ faults = {}

NoTable ==
    /\ sparse_table = [anchor_threshold |-> 1, map |-> <<>>, end |-> <<0, 0>>]
    /\ last_call = [op |-> "new"]

\* short texts of every shape, every anchor threshold, two coverage targets
InitTexts ==
    /\ a \in Texts
    /\ b \in Texts
    /\ \E anchor_threshold \in 1..MaxAnchorThreshold, min_coverage \in {10, FloatDen} :
          config = [BaseConfig EXCEPT !.anchor_threshold = anchor_threshold,
                                      !.min_coverage = min_coverage]
    /\ overflow_checks = TRUE
    /\ InitAlign
    /\ NoTable

\* every cycle cap, coverage target and frequency taper, in both build profiles
InitTaper ==
    /\ a \in TextsOf(2, 1)
    /\ b \in TextsOf(2, 1)
    /\ \E max_cycles \in 0..MaxCycles, min_coverage \in {0, FloatDen},
          threshold \in 0..MaxFrequency, taper \in 0..MaxFrequency,
          minimum \in 0..MaxFrequency :
          config = [BaseConfig EXCEPT !.max_cycles = max_cycles,
                                      !.min_coverage = min_coverage,
                                      !.word_frequency_threshold = threshold,
                                      !.word_frequency_taper = taper,
                                      !.word_frequency_minimum = minimum]
    /\ overflow_checks \in BOOLEAN
    /\ InitAlign
    /\ NoTable

\* every association predicate over the words, in both build profiles
InitMapper ==
    /\ a \in TextsOf(2, MaxTokens)
    /\ b \in TextsOf(2, MaxTokens)
    /\ \E association_mapper \in SUBSET {<<word, word>> : word \in Words} :
          /\ association_mapper # {}
          /\ config = [BaseConfig EXCEPT !.association_mapper = association_mapper]
    /\ overflow_checks \in BOOLEAN
    /\ InitAlign
    /\ NoTable

\* long texts of short sentences: the region is wide enough to hold crossing cells
WideTexts == {text \in [1..WideSentences -> SentencesUpTo(1)] : TokenCount(text, 1) <= WideTokens}

InitWide ==
    /\ a \in WideTexts
    /\ b \in WideTexts
    /\ config = [BaseConfig EXCEPT !.anchor_threshold = MaxAnchorThreshold]
    /\ overflow_checks = TRUE
    /\ InitAlign
    /\ NoTable

\* Config::default().align(a, b) on short texts
InitDefault ==
    /\ a \in TextsOf(2, MaxTokens)
    /\ b \in TextsOf(2, MaxTokens)
    /\ config = Default
    /\ overflow_checks = TRUE
    /\ InitAlign
    /\ NoTable

Init == InitTexts \/ InitTaper \/ InitMapper \/ InitWide \/ InitDefault

(***************************************************************************)
(* The loop of align.                                                      *)
(***************************************************************************)
\* lib.rs 148
LoopTest == CompareFloat(coverage, <<config.min_coverage, FloatDen>>) = "Less" /\ cycle_count < config.max_cycles

\* lib.rs 154-155: (threshold - cycle_count as f32 * taper).max(minimum)
TaperedSimilarity(cycle) == Max(config.word_similarity_threshold - cycle * config.word_similarity_taper, config.word_similarity_minimum)

\* lib.rs 156: the usize subtraction underflows
TaperUnderflows(cycle) == cycle * config.word_frequency_taper > config.word_frequency_threshold

\* TaperedFrequency without .max(self.word_frequency_minimum)
TaperedFrequencyNoFloor(cycle) == WrappingSub(config.word_frequency_threshold, cycle * config.word_frequency_taper)

\* lib.rs 156-157: (threshold - cycle_count * taper).max(minimum), wrapping
TaperedFrequency(cycle) == Max(WrappingSub(config.word_frequency_threshold, cycle * config.word_frequency_taper), config.word_frequency_minimum)

\* lib.rs 149-158: the head of the loop body, up to the ranking
StartCycle ==
    /\ pc = "loop"
    /\ LoopTest
    /\ LET region == alignable_sentence_table(sentence_alignment_table, config.anchor_threshold)
           similarity_min == TaperedSimilarity(cycle_count)
           frequency_min == TaperedFrequency(cycle_count)
           ranking == word_association_tables(a, b, region, similarity_min, frequency_min, config.association_mapper)
           overflows == (IF RegionUnderflows(sentence_alignment_table, config.anchor_threshold) THEN <<"region_underflow">> ELSE <<>>)
                        \o (IF TaperUnderflows(cycle_count) THEN <<"taper_underflow">> ELSE <<>>)
                        \o (IF ranking.overflow THEN <<"cmp_overflow">> ELSE <<>>)
       IN IF overflow_checks /\ overflows # <<>>
          THEN /\ pc' = "panic"
               /\ faults' = faults \cup {Head(overflows)}
               /\ UNCHANGED <<ast, word_association_table, similarity_threshold, frequency_threshold>>
          ELSE /\ pc' = "apply"
               /\ faults' = faults \cup Range(overflows)
               /\ ast' = region
               /\ word_association_table' = ranking.table
               /\ similarity_threshold' = similarity_min
               /\ frequency_threshold' = frequency_min
    /\ UNCHANGED <<a, b, config, overflow_checks, sentence_alignment_table, cycle_count, a_aligned, b_aligned, coverage, coverage_report, promoted, table_vars>>

\* the aligned set created anew instead of once before the loop
InsertedAfresh(aligned, indices) == indices

\* lib.rs 162-163: HashSet::insert of every returned index
Inserted(aligned, indices) == aligned \cup indices

\* lib.rs 160-165: one iteration of the for loop over the ranking
Promote ==
    /\ pc = "apply"
    /\ word_association_table # <<>>
    /\ LET result == align_sentences(Head(word_association_table), ast, word_sentence_index(a), word_sentence_index(b), sentence_alignment_table)
       IN /\ sentence_alignment_table' = result.table
          /\ promoted' = result.matches
          /\ a_aligned' = Inserted(a_aligned, {m[2] : m \in result.matches})
          /\ b_aligned' = Inserted(b_aligned, {m[1] : m \in result.matches})
    /\ word_association_table' = Tail(word_association_table)
    /\ UNCHANGED <<a, b, config, overflow_checks, cycle_count, coverage, coverage_report, ast, similarity_threshold, frequency_threshold, pc, faults, table_vars>>

\* lib.rs 167-170: the end of the loop body
EndCycle ==
    /\ pc = "apply"
    /\ word_association_table = <<>>
    /\ cycle_count' = cycle_count + 1
    /\ coverage' = <<Cardinality(a_aligned) + Cardinality(b_aligned), Len(a) + Len(b)>>
    /\ coverage_report' = Append(coverage_report, coverage')
    /\ pc' = "loop"
    /\ UNCHANGED <<a, b, config, overflow_checks, sentence_alignment_table, a_aligned, b_aligned, ast, word_association_table, similarity_threshold, frequency_threshold, promoted, faults, table_vars>>

\* lib.rs 173-179: the loop test fails and the Output is built
Return ==
    /\ pc = "loop"
    /\ ~LoopTest
    /\ pc' = "done"
    /\ UNCHANGED <<a, b, config, overflow_checks, sentence_alignment_table, cycle_count, a_aligned, b_aligned, coverage, coverage_report, ast, word_association_table, similarity_threshold, frequency_threshold, promoted, faults, table_vars>>

\* Output::a_alignments and Output::b_alignments (lib.rs 23-36), as index sets
a_alignments(i) == {j \in 0..(Len(b) - 1) : sentence_alignment_table[i][j] >= config.anchor_threshold}

b_alignments(i) == {j \in 0..(Len(a) - 1) : sentence_alignment_table[j][i] >= config.anchor_threshold}

Next == StartCycle \/ Promote \/ EndCycle \/ Return

Spec == Init /\ [][Next]_vars

(***************************************************************************)
(* SentenceAlignmentTable (sentence_alignment_table.rs).  map is a         *)
(* function from x to a function from y to a score; a key is present only  *)
(* once it has been incremented.                                           *)
(***************************************************************************)
\* SentenceAlignmentTable::new (sentence_alignment_table.rs 33-39)
new(a_len, b_len, anchor_threshold) == [anchor_threshold |-> anchor_threshold, map |-> <<>>, end |-> <<b_len - 1, a_len - 1>>]

\* SentenceAlignmentTable::score (sentence_alignment_table.rs 41-47)
score(self, coordinates) ==
    LET x == coordinates[1]
        y == coordinates[2]
    IN IF x \in DOMAIN self.map /\ y \in DOMAIN self.map[x] THEN self.map[x][y] ELSE 0

\* SentenceAlignmentTable::increment (sentence_alignment_table.rs 85-87)
increment(self, coordinates) ==
    LET x == coordinates[1]
        y == coordinates[2]
        ys == IF x \in DOMAIN self.map THEN self.map[x] ELSE <<>>
        entry == IF y \in DOMAIN ys THEN ys[y] ELSE 0
    IN [self EXCEPT !.map = [x2 \in DOMAIN self.map \cup {x} |->
                               IF x2 = x
                               THEN [y2 \in DOMAIN ys \cup {y} |-> IF y2 = y THEN entry + 1 ELSE ys[y2]]
                               ELSE self.map[x2]]]

\* SentenceAlignmentTable::next_anchor (sentence_alignment_table.rs 49-63)
sparse_next_anchor(self, start) ==
    IF start = None
    THEN <<0, 0>>
    ELSE LET x == start[1]
             y == start[2]
             \* ys.range((Excluded(y), Included(end.y))).find_map(score >= anchor_threshold)
             hits(x2) == {y2 \in DOMAIN self.map[x2] : y < y2 /\ y2 <= self.end[2] /\ self.map[x2][y2] >= self.anchor_threshold}
             \* map.range((Excluded(x), Included(end.x)))
             columns == {x2 \in DOMAIN self.map : x < x2 /\ x2 <= self.end[1] /\ hits(x2) # {}}
         IN IF columns = {}
            THEN self.end
            ELSE LET x2 == CHOOSE c \in columns : \A d \in columns : c <= d
                 IN <<x2, CHOOSE y2 \in hits(x2) : \A z \in hits(x2) : y2 <= z>>

\* crossover without its second range scan (sentence_alignment_table.rs 74-82)
crossover_right_only(self, coordinates) ==
    LET x == coordinates[1]
        y == coordinates[2]
    IN \E x2 \in DOMAIN self.map :
          /\ x < x2 /\ x2 <= self.end[1]
          /\ \E y2 \in DOMAIN self.map[x2] : 0 <= y2 /\ y2 < y

\* SentenceAlignmentTable::crossover (sentence_alignment_table.rs 65-83)
crossover(self, coordinates) ==
    LET x == coordinates[1]
        y == coordinates[2]
    IN \/ \E x2 \in DOMAIN self.map :
             /\ x < x2 /\ x2 <= self.end[1]
             /\ \E y2 \in DOMAIN self.map[x2] : 0 <= y2 /\ y2 < y
       \/ \E x2 \in DOMAIN self.map :
             /\ 0 <= x2 /\ x2 < x
             /\ \E y2 \in DOMAIN self.map[x2] : y < y2 /\ y2 <= self.end[2]

\* SentenceAlignmentTable::anchors (sentence_alignment_table.rs 89-96)
anchors(self) == {<<x, y>> \in (0..self.end[1]) \X (0..self.end[2]) : score(self, <<x, y>>) >= self.anchor_threshold}

Coordinates(self) == (0..self.end[1]) \X (0..self.end[2])

\* the number of increment calls applied so far
RECURSIVE Total(_, _)
Total(self, cells) ==
    IF cells = {}
    THEN 0
    ELSE LET c == CHOOSE d \in cells : TRUE
         IN score(self, c) + Total(self, cells \ {c})

NoAlign ==
    /\ a = <<>>
    /\ b = <<>>
    /\ config = BaseConfig
    /\ overflow_checks = TRUE
    /\ sentence_alignment_table = <<>>
    /\ cycle_count = 0
    /\ a_aligned = {}
    /\ b_aligned = {}
    /\ coverage = <<0, 1>>
    /\ coverage_report = <<>>
    /\ ast = {}
    /\ word_association_table = <<>>
    /\ similarity_threshold = 0
    /\ frequency_threshold = 0
    /\ promoted = {}
    /\ pc = "none"
    /\ faults = {}

InitTable ==
    /\ \E a_len \in 1..TableMaxY, b_len \in 1..TableMaxX, anchor_threshold \in 1..MaxAnchorThreshold :
          sparse_table = new(a_len, b_len, anchor_threshold)
    /\ last_call = [op |-> "new"]
    /\ NoAlign

Increment ==
    /\ Total(sparse_table, Coordinates(sparse_table)) < MaxIncrements
    /\ \E coordinates \in Coordinates(sparse_table) :
          /\ sparse_table' = increment(sparse_table, coordinates)
          /\ last_call' = [op |-> "increment", arg |-> coordinates]
    /\ UNCHANGED align_vars

Crossover ==
    /\ \E coordinates \in Coordinates(sparse_table) :
          last_call' = [op |-> "crossover", arg |-> coordinates, ret |-> crossover(sparse_table, coordinates)]
    /\ UNCHANGED <<sparse_table, align_vars>>

NextAnchor ==
    /\ \E start \in Coordinates(sparse_table) \cup {None} :
          last_call' = [op |-> "next_anchor", arg |-> start, ret |-> sparse_next_anchor(sparse_table, start)]
    /\ UNCHANGED <<sparse_table, align_vars>>

NextTable == Increment \/ Crossover \/ NextAnchor

SpecTable == InitTable /\ [][NextTable]_vars

(***************************************************************************)
(* Properties.                                                             *)
(***************************************************************************)
Cells == (0..(Len(b) - 1)) \X (0..(Len(a) - 1))

\* the anchors of the dense table: the cells whose score meets anchor_threshold
Anchors == {c \in Cells : sentence_alignment_table[c[2]][c[1]] >= config.anchor_threshold}

\* p and q cross: one lies strictly right of and strictly above the other
Crosses(p, q) == (p[1] < q[1] /\ p[2] > q[2]) \/ (q[1] < p[1] /\ q[2] > p[2])

CycleCompleted == pc \in {"loop", "done"} /\ cycle_count >= 1

\* C1: after each completed cycle of align no two anchors (x1, y1), (x2, y2)
\* of the sentence alignment table have x1 < x2 and y1 > y2.
C1_NoCrossingAnchors ==
    CycleCompleted => \A p \in Anchors, q \in Anchors : ~(p[1] < q[1] /\ p[2] > q[2])

\* a completed cycle has left two anchors in order, and an alignable cell that
\* would cross an anchor has stayed without score
C1_Witness ==
    /\ CycleCompleted
    /\ \E p \in Anchors, q \in Anchors : p[1] < q[1] /\ p[2] < q[2]
    /\ \E c \in ast : /\ sentence_alignment_table[c[2]][c[1]] = 0
                      /\ \E p \in Anchors : Crosses(c, p)

\* C2: the loop of align runs at most max_cycles cycles, the coverage trace has
\* one entry per completed cycle, and the loop stops only when
\* coverage >= min_coverage or the cycle counter equals max_cycles.
C2_StopsOnCoverageOrCap ==
    /\ cycle_count <= config.max_cycles
    /\ Len(coverage_report) = cycle_count
    /\ pc \in {"done", "panic"} =>
          \/ CompareFloat(coverage, <<config.min_coverage, FloatDen>>) # "Less"
          \/ cycle_count = config.max_cycles

\* C3: the coverage trace is non-decreasing from each completed cycle to the next.
C3_CoverageNonDecreasing ==
    \A k \in 1..(Len(coverage_report) - 1) :
       CompareFloat(coverage_report[k], coverage_report[k + 1]) # "Greater"

\* the second cycle has raised the coverage
C3_Witness ==
    /\ Len(coverage_report) >= 2
    /\ CompareFloat(coverage_report[1], coverage_report[2]) = "Less"

\* C4: every cell whose score align_sentences increments lies in the alignable
\* region built at the start of the running cycle.
C4_IncrementsInsideRegion ==
    [][\A c \in Cells :
          sentence_alignment_table'[c[2]][c[1]] > sentence_alignment_table[c[2]][c[1]]
             => c \in ast]_vars

\* align_sentences has incremented a cell while some cell lies outside the
\* region
C4_Witness ==
    /\ pc = "apply"
    /\ promoted # {}
    /\ \A c \in promoted : sentence_alignment_table[c[2]][c[1]] >= 1
    /\ Cells \ ast # {}

Forced(association) == <<association.a, association.b>> \in config.association_mapper

\* C5: in the ranking every pair the association predicate accepts comes before
\* every pair it does not accept, and no comparison overflows.
C5_ForcedDominance ==
    /\ "cmp_overflow" \notin faults
    /\ \A i \in 1..Len(word_association_table), j \in 1..Len(word_association_table) :
          i < j => ~(Forced(word_association_table[j]) /\ ~Forced(word_association_table[i]))

WordsOf(text) == DOMAIN word_sentence_index(text)

ShareNoToken == WordsOf(a) \cap WordsOf(b) = {}

\* every word occurs, in its text, fewer times than the frequency threshold of
\* every cycle below max_cycles whose subtraction (lib.rs 156) does not
\* underflow: max(word_frequency_minimum, threshold - cycle * taper)
BelowFrequencyThreshold ==
    \A cycle \in 0..(config.max_cycles - 1) :
       ~TaperUnderflows(cycle) =>
          LET frequency_min == Max(config.word_frequency_threshold - cycle * config.word_frequency_taper,
                                   config.word_frequency_minimum)
          IN /\ \A word \in WordsOf(a) : Len(word_sentence_index(a)[word]) < frequency_min
             /\ \A word \in WordsOf(b) : Len(word_sentence_index(b)[word]) < frequency_min

\* every coverage entry is 0.0 and the Output holds no alignment
NothingAligned ==
    /\ \A k \in 1..Len(coverage_report) : coverage_report[k][1] = 0
    /\ \A i \in 0..(Len(a) - 1) : a_alignments(i) = {}
    /\ \A i \in 0..(Len(b) - 1) : b_alignments(i) = {}

\* the loop is left only after max_cycles cycles: align returns with
\* cycle_count = max_cycles and never panics
RunsMaxCycles ==
    /\ pc = "done" => cycle_count = config.max_cycles
    /\ pc # "panic"

\* the loop is left after max_cycles cycles, or earlier by the panic of the
\* subtraction at lib.rs 156, in a build with overflow checks, at the head of
\* the first cycle whose cycle_count * taper exceeds the threshold
RunsMaxCyclesOrTaperPanics ==
    /\ pc = "done" =>
          /\ cycle_count = config.max_cycles
          /\ overflow_checks => \A cycle \in 0..(cycle_count - 1) : ~TaperUnderflows(cycle)
    /\ pc = "panic" =>
          /\ overflow_checks
          /\ faults = {"taper_underflow"}
          /\ cycle_count < config.max_cycles
          /\ TaperUnderflows(cycle_count)
          /\ \A cycle \in 0..(cycle_count - 1) : ~TaperUnderflows(cycle)

\* C6: for texts that share no token, with the reject-all predicate and
\* min_coverage > 0, every coverage entry is 0.0, the loop runs exactly
\* max_cycles cycles and the Output reports no alignment.
C6_NoSharedTokenNothingAligned ==
    (pc # "none" /\ ShareNoToken /\ config.association_mapper = {} /\ config.min_coverage > 0)
       => (NothingAligned /\ RunsMaxCycles)

\* C6, for texts that share no token and in which moreover every token occurs
\* fewer times than the frequency threshold of every cycle: every coverage
\* entry is 0.0, the Output reports no alignment, and the loop runs exactly
\* max_cycles cycles unless the frequency subtraction of an earlier cycle
\* underflows in a build with overflow checks, which panics in that cycle.
C6_BelowThresholdNothingAligned ==
    (pc # "none" /\ ShareNoToken /\ BelowFrequencyThreshold
       /\ config.association_mapper = {} /\ config.min_coverage > 0)
       => (NothingAligned /\ RunsMaxCyclesOrTaperPanics)

\* align has returned after max_cycles >= 1 cycles on texts that hold words,
\* share none, stay below the frequency threshold of every cycle, and whose
\* words met in an alignable cell
C6_Witness ==
    /\ pc = "done"
    /\ cycle_count >= 1
    /\ cycle_count = config.max_cycles
    /\ ShareNoToken /\ BelowFrequencyThreshold
    /\ config.word_frequency_minimum = 0
    /\ config.association_mapper = {} /\ config.min_coverage > 0
    /\ \E c \in ast : a[c[2] + 1] # <<>> /\ b[c[1] + 1] # <<>>

\* C7: the coverage recorded after a cycle is the number of sentences of a and
\* of b that take part in an anchor, over the number of all sentences.
C7_CoverageCountsAnchors ==
    CycleCompleted =>
       coverage[1] * (Len(a) + Len(b))
          = (Cardinality({c[2] : c \in Anchors}) + Cardinality({c[1] : c \in Anchors})) * coverage[2]

\* C8: the frequency threshold of cycle c is
\* max(word_frequency_minimum, word_frequency_threshold - c * word_frequency_taper),
\* computed without underflow.
C8_FrequencyTaper ==
    /\ "taper_underflow" \notin faults
    /\ pc = "apply" =>
          frequency_threshold = Max(config.word_frequency_minimum, config.word_frequency_threshold - cycle_count * config.word_frequency_taper)

SparseAnchors == anchors(sparse_table)

SparseEntries == {c \in Coordinates(sparse_table) : score(sparse_table, c) >= 1}

\* C9: crossover(coord) is true iff an anchor lies at larger x and
\* smaller y, or at smaller x and larger y.
C9_CrossoverScansAnchors ==
    last_call.op = "crossover" =>
       (last_call.ret <=> \E c \in SparseAnchors : Crosses(c, last_call.arg))

\* C9, over all stored coordinates: crossover(coord) is true iff a stored
\* coordinate (score >= 1, anchor or not) lies at larger x and smaller y, or
\* at smaller x and larger y.
C9_CrossoverScansEntries ==
    last_call.op = "crossover" =>
       (last_call.ret <=> \E c \in SparseEntries : Crosses(c, last_call.arg))

\* crossover has returned true where the only crossing entry is below the
\* anchor threshold
C9_Witness ==
    /\ last_call.op = "crossover"
    /\ last_call.ret
    /\ ~\E c \in SparseAnchors : Crosses(c, last_call.arg)

\* q comes strictly after p in the order by x, then y
LexAfter(p, q) == q[1] > p[1] \/ (q[1] = p[1] /\ q[2] > p[2])

\* C10: next_anchor(Some(from)) is the smallest anchor, by x then y, strictly
\* after from, and end only if there is none; next_anchor(None) is (0, 0).
C10_LexicographicNext ==
    last_call.op = "next_anchor" =>
       last_call.ret =
          IF last_call.arg = None
          THEN <<0, 0>>
          ELSE LET after == {c \in SparseAnchors : LexAfter(last_call.arg, c)}
               IN IF after = {}
                  THEN sparse_table.end
                  ELSE CHOOSE c \in after : \A d \in after : c = d \/ LexAfter(c, d)

\* the batch align_sentences computes for the association at the head of the
\* ranking
Batch == Matches(Head(word_association_table), ast, word_sentence_index(a), word_sentence_index(b))

\* a cell of the batch without score crosses a cell with score
Blocked == \E m \in Batch : /\ sentence_alignment_table[m[2]][m[1]] = 0
                            /\ \E c \in Cells : /\ sentence_alignment_table[c[2]][c[1]] >= 1
                                                /\ Crosses(c, m)

\* C11: one call of align_sentences is all-or-nothing: if a cell of the batch
\* with score 0 crosses an existing entry, the call returns nothing and leaves
\* every score unchanged; otherwise it adds exactly 1 to every cell of the
\* batch, changes no other cell and returns exactly the batch.
C11_AllOrNothing ==
    [][(pc = "apply" /\ word_association_table # <<>>) =>
          IF Blocked
          THEN /\ sentence_alignment_table' = sentence_alignment_table
               /\ promoted' = {}
          ELSE /\ \A c \in Cells :
                     sentence_alignment_table'[c[2]][c[1]]
                        = sentence_alignment_table[c[2]][c[1]] + (IF c \in Batch THEN 1 ELSE 0)
               /\ promoted' = Batch]_vars

\* align_sentences is about to be called with a batch that holds a cell
\* without score crossing an existing entry
C11_Witness ==
    /\ pc = "apply"
    /\ word_association_table # <<>>
    /\ Batch # {}
    /\ Blocked

\* sentence number i (from 0) of text holds word
Holds(text, i, word) == \E k \in 1..Len(text[i + 1]) : text[i + 1][k] = word

\* the alignable cells whose A-sentence holds token A and whose B-sentence
\* holds token B, for the association at the head of the ranking
Pairings ==
    {c \in ast : /\ Holds(a, c[2], Head(word_association_table).a)
                 /\ Holds(b, c[1], Head(word_association_table).b)}

\* the pairings that are alone in their row and in their column
MutualUnique ==
    {c \in Pairings : \A d \in Pairings : (d[1] = c[1] \/ d[2] = c[2]) => d = c}

\* C12: the batch of align_sentences for a token pair is exactly the set of
\* alignable cells (x, y) with y holding token A and x holding token B such
\* that y is the only such sentence paired with x and x the only one paired
\* with y; no two cells of a batch share an x or a y.
C12_MutualUniqueBatch ==
    [][(pc = "apply" /\ word_association_table # <<>>) =>
          /\ Batch = MutualUnique
          /\ promoted' \in {{}, MutualUnique}
          /\ \A c \in promoted', d \in promoted' :
                (c[1] = d[1] \/ c[2] = d[2]) => c = d]_vars

\* align_sentences is about to be called for a token pair of which some
\* pairings are unique and others are not
C12_Witness ==
    /\ pc = "apply"
    /\ word_association_table # <<>>
    /\ Batch # {}
    /\ Pairings \ Batch # {}

\* the association StartCycle has built for the token pair
Association(pair) == WordAssociation(ast, word_sentence_index(a), word_sentence_index(b), pair[1], pair[2], config.association_mapper)

\* the token pairs met in the region that pass both thresholds of the cycle
Surviving ==
    {pair \in Range(Visits(ast, a, b, 0)) :
        Admitted(Association(pair), similarity_threshold, frequency_threshold)}

\* C13: every token pair that passes the thresholds of a cycle is in the
\* ranking of the cycle, and two distinct surviving pairs never compare as
\* equal.
C13_EverySurvivorRanked ==
    [][(pc = "loop" /\ pc' = "apply") =>
          (/\ {<<r.a, r.b>> : r \in Range(word_association_table)} = Surviving
           /\ \A p \in Surviving, q \in Surviving :
                 p # q => cmp(Association(p), Association(q)) # "Equal")']_vars

\* the pairs of consecutive walk points the loop of alignable_sentence_table
\* runs for
RECURSIVE WalkPairs(_, _, _, _)
WalkPairs(sat, anchor_threshold, start, end) ==
    IF start = end
    THEN {}
    ELSE {<<start, end>>} \cup WalkPairs(sat, anchor_threshold, end, next_anchor(sat, anchor_threshold, end))

\* the pairs of walk points the region builder meets: the first pair, also
\* when its start equals its end, and every pair of the loop
MetPairs ==
    LET start == next_anchor(sentence_alignment_table, config.anchor_threshold, None)
        end == next_anchor(sentence_alignment_table, config.anchor_threshold, start)
    IN {<<start, end>>} \cup WalkPairs(sentence_alignment_table, config.anchor_threshold, start, end)

\* start equals end, or the scanned span is 0: the same y with different x
\* (rows are scanned) or the same x with different y (columns are scanned)
ZeroSpan(pair) == pair[1][1] = pair[2][1] \/ pair[1][2] = pair[2][2]

\* the cells the builder sets for the pair: the loop body does not run when
\* start equals end
Contribution(pair) == IF pair[1] = pair[2] THEN {} ELSE Segment(pair[1], pair[2])

\* C14: a pair of walk points whose scanned span is 0, or whose start equals
\* its end, contributes exactly one cell to the region: not none, and not the
\* whole row or column between start and end.
C14_ZeroSpanSinglePoint ==
    [][(pc = "loop" /\ pc' = "apply") =>
          \A pair \in MetPairs :
             ZeroSpan(pair) =>
                /\ Contribution(pair) \subseteq ast'
                /\ Cardinality(Contribution(pair)) = 1]_vars

====
